---------------------------- MODULE Spec2Model ----------------------------
(***************************************************************************)
(* RGB status LED component (esphome-rgb-status-led).                      *)
(*                                                                         *)
(* Two layers are modelled.                                                *)
(*  - The configuration layer of __init__.py: ColorSchema, CONFIG_SCHEMA   *)
(*    (defaults and validators) and to_code (the setter calls that hand    *)
(*    the validated values to the RGBStatusLED object).                    *)
(*  - The runtime core (BlinkTimer, StatusSource, PriorityArbiter,         *)
(*    Renderer, OutputDriver, UserOverrideTracker).  Its C++ source is not *)
(*    part of the source tree at hand; it is modelled from sections 3-5 of *)
(*    the specification.                                                   *)
(*                                                                         *)
(* Fixed point: a percentage (colour channel, brightness) is an integer    *)
(* number of hundredths, 0..100 for 0.0..1.0.  A rendered channel is the   *)
(* product of two of them, in ten-thousandths, 0..10000.  Time is in       *)
(* milliseconds.                                                           *)
(***************************************************************************)
EXTENDS Integers, FiniteSets, Sequences, TLC

VARIABLES
    yaml,          \* the user's YAML document (raw, unvalidated)
    config,        \* {} until validated, then {validated config}
    stage,         \* "yaml" | "validated" | "invalid" | "run"
    led,           \* the RGBStatusLED object's configured fields ({} or {record})
    signals,       \* RuntimeSignals sampled by the last tick
    userCommand,   \* the UserCommand slot: {} (absent) or {[color, on]}
    lastOp,        \* history: the last control-surface call and the tick's
                   \* position when it ran
    now,           \* monotonic elapsed time, ms
    tickPc,        \* "idle" | "read": position of the render tick
    snap,          \* the UserCommand slot as read by the (last) tick
    outcome,       \* RenderState: resolved outcome ("None" before the first tick)
    blink_phase,   \* RenderState: blink phase handed to the renderer
    hw,            \* the three hardware channels as last written
    probe          \* BlinkTimer probe: a remembered and the latest phase() call

vars == <<yaml, config, stage, led, signals, userCommand, lastOp, now,
          tickPc, snap, outcome, blink_phase, hw, probe>>

-----------------------------------------------------------------------------
(* Bounds of the model *)

MaxNow == 375          \* the clock stops advancing here
ClockStep == 125       \* granularity with which the clock advances
MaxProbeTime == 12     \* BlinkTimer probe: times 0..MaxProbeTime (half-ms grid)
MaxProbePeriod == 5    \* BlinkTimer probe: periods 0..MaxProbePeriod

-----------------------------------------------------------------------------
(* Colours *)

Color(r, g, b) == [red |-> r, green |-> g, blue |-> b]

Black == Color(0, 0, 0)

Channels == {"red", "green", "blue"}

-----------------------------------------------------------------------------
(* Validators of esphome.config_validation used by the schema.  A validator *)
(* maps a raw value to the set holding its validated value, or to {} when   *)
(* it raises Invalid.                                                       *)

\* cv.percentage: a number (here in hundredths) that must lie in [0.0, 1.0].
cv_percentage(value) == IF value >= 0 /\ value <= 100 THEN {value} ELSE {}

\* cv.positive_time_period: All(time_period, Range(min=TimePeriod())).
\* time_period parses "<n><unit>"; the range check is inclusive, so a zero
\* period passes.  The result is the period in milliseconds.
TimeUnits == [ms |-> 1, s |-> 1000]

time_period(value) ==
    IF value.unit \in DOMAIN TimeUnits THEN {value.n * TimeUnits[value.unit]} ELSE {}

cv_positive_time_period(value) == {t \in time_period(value) : t >= 0}

\* cv.enum(["status", "user"])
cv_enum(value) == IF value \in {"status", "user"} THEN {value} ELSE {}

\* cv.boolean: bools and the usual yes/no spellings, case-insensitively
\* (the raw values here are already lower case).
cv_boolean(value) ==
    IF value \in {"true", "yes", "on", "enable"} THEN {TRUE}
    ELSE IF value \in {"false", "no", "off", "disable"} THEN {FALSE}
    ELSE {}

\* ColorSchema: three required percentages.
ColorSchema(value) ==
    {Color(r, g, b) : r \in cv_percentage(value.red),
                      g \in cv_percentage(value.green),
                      b \in cv_percentage(value.blue)}

\* cv.Optional(key, default=...): the default stands in for an absent key
\* and is validated like any other value.  A key is {} (absent) or {raw}.
Optional(given, default) == IF given = {} THEN default ELSE CHOOSE v \in given : TRUE

-----------------------------------------------------------------------------
(* Defaults of CONFIG_SCHEMA *)

DefaultErrorColor == Color(100, 0, 0)
DefaultWarningColor == Color(100, 50, 0)
DefaultOkColor == Color(0, 100, 10)
DefaultBootColor == Color(100, 0, 0)
DefaultWifiColor == Color(70, 70, 70)
DefaultApiColor == Color(0, 100, 10)
DefaultOtaColor == Color(0, 0, 100)
DefaultErrorBlinkSpeed == [n |-> 250, unit |-> "ms"]
DefaultWarningBlinkSpeed == [n |-> 1500, unit |-> "ms"]
DefaultBrightness == 50
DefaultPriorityMode == "status"
DefaultOkStateEnabled == "true"

\* CONFIG_SCHEMA: {} when any key fails validation, else {the validated config}.
CONFIG_SCHEMA(y) ==
    {[error_color |-> ec, warning_color |-> wc, ok_color |-> okc,
      boot_color |-> bc, wifi_color |-> wic, api_color |-> ac, ota_color |-> otc,
      error_blink_speed |-> ebs, warning_blink_speed |-> wbs,
      brightness |-> br, priority_mode |-> pm, ok_state_enabled |-> ose] :
        ec \in ColorSchema(Optional(y.error_color, DefaultErrorColor)),
        wc \in ColorSchema(Optional(y.warning_color, DefaultWarningColor)),
        okc \in ColorSchema(Optional(y.ok_color, DefaultOkColor)),
        bc \in ColorSchema(Optional(y.boot_color, DefaultBootColor)),
        wic \in ColorSchema(Optional(y.wifi_color, DefaultWifiColor)),
        ac \in ColorSchema(Optional(y.api_color, DefaultApiColor)),
        otc \in ColorSchema(Optional(y.ota_color, DefaultOtaColor)),
        ebs \in cv_positive_time_period(Optional(y.error_blink_speed, DefaultErrorBlinkSpeed)),
        wbs \in cv_positive_time_period(Optional(y.warning_blink_speed, DefaultWarningBlinkSpeed)),
        br \in cv_percentage(Optional(y.brightness, DefaultBrightness)),
        pm \in cv_enum(Optional(y.priority_mode, DefaultPriorityMode)),
        ose \in cv_boolean(Optional(y.ok_state_enabled, DefaultOkStateEnabled))}

\* The setter calls of to_code: every validated value is passed to its
\* setter unchanged.
setters(c) ==
    [error_color |-> c.error_color, warning_color |-> c.warning_color,
     ok_color |-> c.ok_color, boot_color |-> c.boot_color,
     wifi_color |-> c.wifi_color, api_color |-> c.api_color,
     ota_color |-> c.ota_color,
     error_blink_speed |-> c.error_blink_speed,
     warning_blink_speed |-> c.warning_blink_speed,
     brightness |-> c.brightness,
     priority_mode |-> c.priority_mode,
     ok_state_enabled |-> c.ok_state_enabled]

\* Faulty variants of to_code, used to show what each property rests on.
\* set_priority_mode receives a fixed mode instead of the configured one.
to_code_mode_user(c) == [setters(c) EXCEPT !.priority_mode = "user"]

to_code_mode_status(c) == [setters(c) EXCEPT !.priority_mode = "status"]

\* set_ok_state_enabled is never called: the object keeps the ok state on.
to_code_ok_always(c) == [setters(c) EXCEPT !.ok_state_enabled = TRUE]

\* The two blink speeds reach each other's setter.
to_code_blink_swapped(c) ==
    [setters(c) EXCEPT !.error_blink_speed = c.warning_blink_speed,
                       !.warning_blink_speed = c.error_blink_speed]

\* set_brightness is never called: the object keeps full brightness.
to_code_brightness_full(c) == [setters(c) EXCEPT !.brightness = 100]

\* to_code(config): the object as configured for the build.
to_code(c) == setters(c)

-----------------------------------------------------------------------------
(* BlinkTimer (specification section 4.1) *)

\* Faulty variant: the half period is truncated to whole milliseconds.
phaseAt_truncated(t2, period) ==
    IF period = 0 THEN TRUE ELSE (t2 % (2 * period)) < 2 * (period \div 2)

\* The phase at elapsed time t2/2 ms (t2 counts half milliseconds) for a
\* period given in ms: a 50% square wave toggling at every multiple of
\* period/2, i.e. floor((t2/2) / (period/2)) is even.  A period of 0 does not
\* blink: solid on.
phaseAt(t2, period) ==
    IF period = 0 THEN TRUE ELSE (t2 \div period) % 2 = 0

\* phase(now, period) -> bool, the time t in ms.
phase(t, period) == phaseAt(2 * t, period)

-----------------------------------------------------------------------------
(* StatusSource (section 4.2) *)

\* sample() may return any combination, consistent or not.
RuntimeSignals ==
    [has_error : BOOLEAN, has_warning : BOOLEAN, wifi_connected : BOOLEAN,
     api_connected : BOOLEAN, ota_active : BOOLEAN, boot_active : BOOLEAN]

AllClear ==
    [has_error |-> FALSE, has_warning |-> FALSE, wifi_connected |-> TRUE,
     api_connected |-> TRUE, ota_active |-> FALSE, boot_active |-> FALSE]

-----------------------------------------------------------------------------
(* PriorityArbiter (section 4.3) *)

\* Step 2: the status signals in StatusLevel priority order.
statusLevel(sig) ==
    IF sig.has_error THEN "Error"
    ELSE IF sig.has_warning THEN "Warning"
    ELSE IF sig.ota_active THEN "OTA"
    ELSE IF sig.boot_active THEN "Boot"
    ELSE IF ~sig.wifi_connected THEN "WifiDisconnected"
    ELSE IF ~sig.api_connected THEN "ApiDisconnected"
    ELSE "Ok"

\* Faulty variant: step 4 is missing.
arbitrate_no_step4(cfg, sig, cmd) ==
    IF cfg.priority_mode = "user" /\ cmd # {} THEN "UserControlled"
    ELSE IF statusLevel(sig) = "Ok" /\ ~cfg.ok_state_enabled THEN "Off"
    ELSE statusLevel(sig)

\* Steps 1-4, first match wins.  cmd is the UserCommand slot ({} = absent).
arbitrate(cfg, sig, cmd) ==
    IF cfg.priority_mode = "user" /\ cmd # {} THEN "UserControlled"
    ELSE LET level == statusLevel(sig)
             resolved == IF level = "Ok" /\ ~cfg.ok_state_enabled
                         THEN "Off" ELSE level
         IN  IF cfg.priority_mode = "status" /\ cmd # {}
                /\ resolved \in {"Ok", "Off"}
             THEN "UserControlled"
             ELSE resolved

-----------------------------------------------------------------------------
(* Renderer (section 4.4) and OutputDriver (section 4.5) *)

\* The colour chosen for an outcome before brightness scaling.
rawColor(o, ph, cfg, cmd) ==
    CASE o = "Error"            -> IF ph THEN cfg.error_color ELSE Black
      [] o = "Warning"          -> IF ph THEN cfg.warning_color ELSE Black
      [] o = "OTA"              -> cfg.ota_color
      [] o = "Boot"             -> cfg.boot_color
      [] o = "WifiDisconnected" -> cfg.wifi_color
      [] o = "ApiDisconnected"  -> cfg.api_color
      [] o = "Ok"               -> cfg.ok_color
      [] o = "Off"              -> Black
      [] o = "UserControlled"   ->
            LET c == CHOOSE u \in cmd : TRUE
            IN  IF c.on THEN c.color ELSE Black

\* Multiplicative dimming of every channel.
scale(color, brightness) == [ch \in Channels |-> color[ch] * brightness]

\* render: the scaling step is skipped for Off and for an off UserControlled.
render(o, ph, cfg, cmd) ==
    IF o = "Off" \/ (o = "UserControlled" /\ ~(CHOOSE u \in cmd : TRUE).on)
    THEN Black
    ELSE scale(rawColor(o, ph, cfg, cmd), cfg.brightness)

\* apply(Color): each channel is written to its own output.
apply(color) == [red |-> color.red, green |-> color.green, blue |-> color.blue]

\* The blink phase of the RenderState: the BlinkTimer's answer for the two
\* blinking levels; for every other outcome it carries no meaning and may
\* hold either value.
phaseFor(o, cfg, t) ==
    CASE o = "Error"   -> {phase(t, cfg.error_blink_speed)}
      [] o = "Warning" -> {phase(t, cfg.warning_blink_speed)}
      [] OTHER         -> BOOLEAN

-----------------------------------------------------------------------------
(* UserOverrideTracker (section 4.6) and the UserCommand slot (section 5) *)

\* Faulty variant: the two fields are stored one after the other and the
\* on/off flag of the previous command is still in place.
store_torn(old, new) ==
    IF old # {} /\ new # {}
    THEN {[color |-> (CHOOSE c \in new : TRUE).color,
           on |-> (CHOOSE c \in old : TRUE).on]}
    ELSE new

\* The slot is one exclusive cell: a store replaces the whole value.
store(old, new) == new

\* Faulty variant: a command already in the slot is kept.
set_keep_first(slot, color, on) ==
    IF slot # {} THEN slot ELSE store(slot, {[color |-> color, on |-> on]})

\* set(color, on): the newest command replaces any prior one.
set(slot, color, on) == store(slot, {[color |-> color, on |-> on]})

\* clear(): the slot becomes absent.
clear(slot) == store(slot, {})

-----------------------------------------------------------------------------
(* Inputs *)

Absent == {}

RawColor(r, g, b) == {Color(r, g, b)}

\* YAML documents: every optional key is Absent or {raw value}.
YamlDoc(ec, bc, ac, ebs, wbs, br, pm, ose) ==
    [error_color |-> ec, warning_color |-> Absent, ok_color |-> Absent,
     boot_color |-> bc, wifi_color |-> Absent, api_color |-> ac,
     ota_color |-> Absent,
     error_blink_speed |-> ebs, warning_blink_speed |-> wbs,
     brightness |-> br, priority_mode |-> pm, ok_state_enabled |-> ose]

Period(n, unit) == {[n |-> n, unit |-> unit]}

\* Documents a user may write, valid or not (configuration layer).
WideYaml ==
    {YamlDoc(ec, bc, ac, ebs, wbs, br, pm, ose) :
        ec \in {Absent, RawColor(100, 0, 0), RawColor(0, 101, 0), RawColor(0, 0, -1)},
        bc \in {Absent, RawColor(100, 100, 0)},
        ac \in {Absent, RawColor(150, 0, 0)},
        ebs \in {Absent, Period(0, "ms"), Period(1, "ms"), Period(-1, "ms"),
                 Period(1, "s"), Period(1, "parsec")},
        wbs \in {Absent, Period(0, "s"), Period(2, "s")},
        br \in {Absent, {0}, {100}, {101}, {-1}},
        pm \in {Absent, {"status"}, {"user"}, {"auto"}},
        ose \in {Absent, {"false"}, {"no"}, {"maybe"}}}

\* Valid documents the running component is built from: the default colours
\* and periods at the default and at zero brightness, and custom colours and
\* periods at full brightness, each in both priority modes and with the ok
\* state enabled and disabled.
RunStyles ==
    {<<Absent, Absent, Absent, Absent, Absent>>,
     <<Absent, Absent, Absent, Absent, {0}>>,
     <<RawColor(100, 100, 0), RawColor(0, 100, 100),
       Period(0, "ms"), Period(250, "ms"), {100}>>}

RunYaml ==
    {YamlDoc(Absent, st[1], st[2], st[3], st[4], st[5], pm, ose) :
        st \in RunStyles, pm \in {Absent, {"user"}}, ose \in {Absent, {"false"}}}

\* Commands the control surface receives.
UserCommand(color, on) == [color |-> color, on |-> on]

UserCommands ==
    {UserCommand(Color(100, 100, 100), TRUE), UserCommand(Color(100, 0, 0), FALSE)}

NoOp == [op |-> "none", cmd |-> Absent, during |-> "idle"]

NoProbe == [memo |-> {}, last |-> {}]

-----------------------------------------------------------------------------
(* The component: construction *)

Unbuilt ==
    /\ signals = AllClear
    /\ userCommand = Absent
    /\ lastOp = NoOp
    /\ now = 0
    /\ tickPc = "idle"
    /\ snap = Absent
    /\ outcome = "None"
    /\ blink_phase = TRUE
    /\ hw = Black
    /\ probe = NoProbe

runtimeVars == <<signals, userCommand, lastOp, now, tickPc, snap,
                 outcome, blink_phase, hw>>

configVars == <<yaml, config, stage, led>>

\* The state after construction: the document has passed CONFIG_SCHEMA and
\* to_code has configured the object.
Built(docs) ==
    /\ yaml \in docs
    /\ CONFIG_SCHEMA(yaml) # {}
    /\ config = CONFIG_SCHEMA(yaml)
    /\ led = {to_code(c) : c \in config}
    /\ stage = "run"
    /\ Unbuilt

Init == Built(RunYaml)

cfg == CHOOSE c \in led : TRUE

-----------------------------------------------------------------------------
(* The component: operations *)

\* The first half of a render tick: sample the signals, read the slot.
TickRead(sig) ==
    /\ signals' = sig
    /\ snap' = userCommand

\* The second half: arbitrate, take the blink phase, render, apply.
TickWrite(sig, cmd) ==
    /\ outcome' = arbitrate(cfg, sig, cmd)
    /\ blink_phase' \in phaseFor(outcome', cfg, now)
    /\ hw' = apply(render(outcome', blink_phase', cfg, cmd))

\* One render tick, run to completion (single-threaded host).
Tick ==
    /\ stage = "run" /\ tickPc = "idle"
    /\ \E sig \in RuntimeSignals :
          /\ TickRead(sig)
          /\ TickWrite(sig, userCommand)
    /\ UNCHANGED <<configVars, userCommand, lastOp, now, tickPc, probe>>

\* set-user-color(Color, on/off)
Set ==
    /\ stage = "run"
    /\ \E c \in UserCommands :
          /\ userCommand' = set(userCommand, c.color, c.on)
          /\ lastOp' = [op |-> "set", cmd |-> {c}, during |-> tickPc]
    /\ UNCHANGED <<configVars, signals, now, tickPc, snap, outcome,
                   blink_phase, hw, probe>>

\* clear-user-color()
Clear ==
    /\ stage = "run"
    /\ userCommand' = clear(userCommand)
    /\ lastOp' = [op |-> "clear", cmd |-> Absent, during |-> tickPc]
    /\ UNCHANGED <<configVars, signals, now, tickPc, snap, outcome,
                   blink_phase, hw, probe>>

\* Time passes.
Advance ==
    /\ stage = "run"
    /\ now + ClockStep <= MaxNow
    /\ now' = now + ClockStep
    /\ UNCHANGED <<configVars, signals, userCommand, lastOp, tickPc,
                   snap, outcome, blink_phase, hw, probe>>

Next == Tick \/ Set \/ Clear \/ Advance

Spec == Init /\ [][Next]_vars

-----------------------------------------------------------------------------
(* The configuration layer on its own: validation and code generation of   *)
(* arbitrary documents.                                                     *)

InitConfig ==
    /\ yaml \in WideYaml
    /\ config = {}
    /\ led = {}
    /\ stage = "yaml"
    /\ Unbuilt

\* CONFIG_SCHEMA accepts the document.
Validate ==
    /\ stage = "yaml"
    /\ CONFIG_SCHEMA(yaml) # {}
    /\ config' = CONFIG_SCHEMA(yaml)
    /\ stage' = "validated"
    /\ UNCHANGED <<yaml, led, runtimeVars, probe>>

\* CONFIG_SCHEMA raises Invalid: nothing is generated.
Reject ==
    /\ stage = "yaml"
    /\ CONFIG_SCHEMA(yaml) = {}
    /\ stage' = "invalid"
    /\ UNCHANGED <<yaml, config, led, runtimeVars, probe>>

\* to_code runs on the validated config.
Generate ==
    /\ stage = "validated"
    /\ led' = {to_code(c) : c \in config}
    /\ stage' = "run"
    /\ UNCHANGED <<yaml, config, runtimeVars, probe>>

NextConfig == Validate \/ Reject \/ Generate

SpecConfig == InitConfig /\ [][NextConfig]_vars

-----------------------------------------------------------------------------
(* A control surface running in parallel with the render tick: the tick's   *)
(* read of the slot and its write of the outputs are separate steps, and    *)
(* set/clear may run between them.                                          *)

ConcYaml == {d \in RunYaml : d.brightness = {100}}

InitConc == Built(ConcYaml)

TickBegin ==
    /\ stage = "run" /\ tickPc = "idle"
    /\ \E sig \in RuntimeSignals : TickRead(sig)
    /\ tickPc' = "read"
    /\ UNCHANGED <<configVars, userCommand, lastOp, now, outcome,
                   blink_phase, hw, probe>>

TickEnd ==
    /\ stage = "run" /\ tickPc = "read"
    /\ TickWrite(signals, snap)
    /\ tickPc' = "idle"
    /\ UNCHANGED <<configVars, signals, userCommand, lastOp, now, snap, probe>>

NextConc == TickBegin \/ TickEnd \/ Set \/ Clear \/ Advance

SpecConc == InitConc /\ [][NextConc]_vars

-----------------------------------------------------------------------------
(* The BlinkTimer on its own: phase is called with arbitrary arguments, in  *)
(* any order; one earlier call is remembered.                               *)

InitBlink == Built({YamlDoc(Absent, Absent, Absent, Absent, Absent, Absent, Absent, Absent)})

\* The half-ms cells of one period starting at t2.
Window(t2, period) == t2 .. (t2 + 2 * period - 1)

\* One call of phase at time t2 (half-ms) with the given period, and what the
\* timer answers over the window of one period that starts there.
ProbeCall(t2, period) ==
    [t |-> t2, period |-> period,
     result |-> phaseAt(t2, period),
     trueCells |-> Cardinality({u \in Window(t2, period) : phaseAt(u, period)}),
     toggles |-> {u \in Window(t2 + 1, period) :
                     phaseAt(u, period) # phaseAt(u - 1, period)}]

Probe ==
    /\ \E t2 \in 0 .. MaxProbeTime, period \in 0 .. MaxProbePeriod :
          probe' = [probe EXCEPT !.last = {ProbeCall(t2, period)}]
    /\ UNCHANGED <<configVars, runtimeVars>>

Remember ==
    /\ probe.last # {}
    /\ probe' = [probe EXCEPT !.memo = probe.last]
    /\ UNCHANGED <<configVars, runtimeVars>>

NextBlink == Probe \/ Remember

SpecBlink == InitBlink /\ [][NextBlink]_vars

-----------------------------------------------------------------------------
(* Properties *)

\* The validated configuration the user asked for.
conf == CHOOSE c \in config : TRUE

\* A render tick has completed.
Rendered == stage = "run" /\ tickPc = "idle" /\ outcome # "None"

\* The status conditions in priority order, and whether each holds.
StatusOrder ==
    <<"Error", "Warning", "OTA", "Boot", "WifiDisconnected", "ApiDisconnected">>

Holds(level, sig) ==
    CASE level = "Error"            -> sig.has_error
      [] level = "Warning"          -> sig.has_warning
      [] level = "OTA"              -> sig.ota_active
      [] level = "Boot"             -> sig.boot_active
      [] level = "WifiDisconnected" -> ~sig.wifi_connected
      [] level = "ApiDisconnected"  -> ~sig.api_connected

AnyCondition(sig) == \E i \in DOMAIN StatusOrder : Holds(StatusOrder[i], sig)

IsFirstCondition(level, sig) ==
    \E i \in DOMAIN StatusOrder :
        /\ StatusOrder[i] = level
        /\ Holds(level, sig)
        /\ \A j \in 1 .. (i - 1) : ~Holds(StatusOrder[j], sig)

UserActive == snap # Absent

UserFirst == conf.priority_mode = "user" /\ UserActive

\* What the renderer must show for a user command.
UserOutput(c) ==
    IF c.on THEN [ch \in Channels |-> c.color[ch] * conf.brightness] ELSE Black

Dimmed(color) == [ch \in Channels |-> color[ch] * conf.brightness]

White == Color(100, 100, 100)

\* C1: unless priority_mode is user and a user command is active, whenever a
\* status condition holds the outcome is the first condition that holds in
\* the order Error, Warning, OTA, Boot, WifiDisconnected, ApiDisconnected; in
\* particular has_error gives Error in status mode even with a user command,
\* OTA wins over Boot, and wifi and api both down give WifiDisconnected.
C1_FirstConditionWins ==
    (Rendered /\ ~UserFirst) =>
        /\ AnyCondition(signals) => IsFirstCondition(outcome, signals)
        /\ signals.has_error => outcome = "Error"
        /\ (signals.ota_active /\ signals.boot_active
               /\ ~signals.has_error /\ ~signals.has_warning) => outcome = "OTA"
        /\ (~signals.wifi_connected /\ ~signals.api_connected
               /\ ~signals.has_error /\ ~signals.has_warning
               /\ ~signals.ota_active /\ ~signals.boot_active)
              => outcome = "WifiDisconnected"

C1_Witness ==
    /\ Rendered
    /\ conf.priority_mode = "status" /\ UserActive
    /\ signals.has_error /\ signals.has_warning /\ ~signals.wifi_connected
    /\ outcome = "Error"

\* C2: when priority_mode is user and a user command is active, the outcome
\* is UserControlled whatever the signals and ok_state_enabled are, and the
\* output is the command's, never a status colour.
C2_UserModeSuppressesStatus ==
    (Rendered /\ UserFirst) =>
        /\ outcome = "UserControlled"
        /\ \A c \in snap : hw = UserOutput(c)

C2_Witness ==
    /\ Rendered /\ UserFirst
    /\ signals.has_error
    /\ outcome = "UserControlled"
    /\ hw = Dimmed(White)

\* C3: in status mode with a user command active and no status condition,
\* the outcome is UserControlled (not Ok, not Off) for either value of
\* ok_state_enabled; set(white, on) shows white scaled by the brightness.
C3_StatusModeHonoursUserWhenClear ==
    (Rendered /\ conf.priority_mode = "status" /\ UserActive
        /\ ~AnyCondition(signals)) =>
        /\ outcome = "UserControlled"
        /\ snap = {UserCommand(White, TRUE)} => hw = Dimmed(White)

C3_Witness ==
    /\ Rendered
    /\ conf.priority_mode = "status" /\ ~conf.ok_state_enabled
    /\ snap = {UserCommand(White, TRUE)}
    /\ ~AnyCondition(signals)
    /\ outcome = "UserControlled"
    /\ conf.brightness = 50 /\ hw = Color(5000, 5000, 5000)

\* C4 as stated: with ok_state_enabled false the output is fully off
\* whenever the signals alone would resolve to Ok, in either priority mode
\* and for any user-command state.
C4_OffWheneverOk ==
    (Rendered /\ ~conf.ok_state_enabled /\ ~AnyCondition(signals)) => hw = Black

\* C4 amended: with ok_state_enabled false and no user command active, the
\* output is fully off whenever the signals resolve to Ok, in either
\* priority mode.
C4_OffWhenOkAndNoUser ==
    (Rendered /\ ~conf.ok_state_enabled /\ ~AnyCondition(signals) /\ ~UserActive)
        => (outcome = "Off" /\ hw = Black)

C4_Witness ==
    /\ Rendered
    /\ ~conf.ok_state_enabled /\ conf.brightness > 0
    /\ ~AnyCondition(signals) /\ ~UserActive
    /\ outcome = "Off" /\ hw = Black

\* C5: the UserCommand slot holds exactly the arguments of the most recent
\* set if no clear came after it and is absent otherwise; ticks, the passing
\* of time and the signals never create, change or remove it.
C5_SlotIsLastCall ==
    stage = "run" =>
        /\ lastOp.op = "set" => userCommand = lastOp.cmd /\ lastOp.cmd # Absent
        /\ lastOp.op \in {"none", "clear"} => userCommand = Absent

C5_Witness ==
    /\ Rendered /\ now > 0
    /\ lastOp.op = "set"
    /\ snap # Absent /\ snap # userCommand
    /\ AnyCondition(signals)

\* What a tick must leave on the outputs, per outcome.
C6_TickShows ==
    /\ outcome' = "Error" =>
          hw' = IF phase(now, conf.error_blink_speed)
                THEN Dimmed(conf.error_color) ELSE Black
    /\ outcome' = "Warning" =>
          hw' = IF phase(now, conf.warning_blink_speed)
                THEN Dimmed(conf.warning_color) ELSE Black
    /\ outcome' = "OTA" => hw' = Dimmed(conf.ota_color)
    /\ outcome' = "Boot" => hw' = Dimmed(conf.boot_color)
    /\ outcome' = "WifiDisconnected" => hw' = Dimmed(conf.wifi_color)
    /\ outcome' = "ApiDisconnected" => hw' = Dimmed(conf.api_color)
    /\ outcome' = "Ok" => hw' = Dimmed(conf.ok_color)

\* C6: a tick whose outcome is Error (Warning) shows the error (warning)
\* colour scaled by the brightness when the blink phase for
\* error_blink_speed (warning_blink_speed) at the tick's time is true and
\* black when it is false; a tick whose outcome is OTA, Boot,
\* WifiDisconnected, ApiDisconnected or Ok shows the configured colour
\* scaled by the brightness whatever the time and the blink phase.
C6_BlinkAndSolid == [][Tick => C6_TickShows]_vars

C6_Witness ==
    /\ Rendered /\ now > 0
    /\ outcome = "Error" /\ ~blink_phase
    /\ conf.brightness > 0 /\ conf.error_blink_speed > 0
    /\ hw = Black

\* C7: every channel written equals the chosen raw colour's channel times
\* the brightness, for every outcome and blink phase; so it stays within
\* [0, 1] (0..10000 ten-thousandths), and brightness 0 gives the output of
\* Off.
C7_BrightnessLinear ==
    Rendered =>
        /\ \A ch \in Channels :
              /\ hw[ch] = rawColor(outcome, blink_phase, conf, snap)[ch]
                            * conf.brightness
              /\ hw[ch] >= 0 /\ hw[ch] <= 10000
        /\ conf.brightness = 0 => hw = Black

C7_Witness ==
    /\ Rendered
    /\ outcome = "Warning" /\ blink_phase
    /\ conf.brightness = 50
    /\ hw = Color(5000, 2500, 0)

InUnit(x) == x >= 0 /\ x <= 100

ColorKeys ==
    {"error_color", "warning_color", "ok_color", "boot_color", "wifi_color",
     "api_color", "ota_color"}

RangesHold(c) ==
    /\ \A k \in ColorKeys : \A ch \in Channels : InUnit(c[k][ch])
    /\ InUnit(c.brightness)
    /\ c.priority_mode \in {"status", "user"}
    /\ c.ok_state_enabled \in BOOLEAN

\* C8: every configuration handed to the core has all colour channels and
\* the brightness in [0, 1], priority_mode status or user, and both blink
\* periods strictly positive.
C8_CorePrecondition ==
    stage = "run" =>
        \A c \in led :
            /\ RangesHold(c)
            /\ c.error_blink_speed > 0
            /\ c.warning_blink_speed > 0

=============================================================================
